---------------------------- MODULE Spec2Model ----------------------------
(***************************************************************************)
(* Event Quality Scanner (src/app.js): the parser safeParseJSON, the rule  *)
(* engine validateEvent and the page's handlers (onScan, onLoadValid,      *)
(* onLoadBroken).                                                          *)
(*                                                                         *)
(* JavaScript strings are sequences of one-character strings, so that the  *)
(* two regular expressions and String.prototype.trim are computed on the   *)
(* characters.  A JavaScript value is a record [t |-> tag, v |-> payload]; *)
(* an object's payload is the sequence of its own enumerable properties    *)
(* in Object.keys order, each [k |-> name, v |-> value].                   *)
(***************************************************************************)
EXTENDS Integers, Sequences, FiniteSets, TLC

VARIABLES
    event,        \* the record handed to validateEvent (NoValue: no call)
    cfg,          \* the configuration handed to validateEvent
    result,       \* what validateEvent returned (NoValue: no call)
    textarea,     \* #event-input: the text the user typed or an example loaded
    input,        \* onScan's input, the text it read (NoValue: no scan)
    parseStatus,  \* #parse-status
    parsed,       \* what safeParseJSON returned in the last scan (NoValue: not called)
    summary,      \* #summary: the badge
    lists,        \* the four <ul>: rendered issues per list id
    rawIssues     \* #raw-issues

vars == <<event, cfg, result, textarea, input, parseStatus, parsed, summary,
          lists, rawIssues>>

engineVars == <<event, cfg, result>>
pageVars == <<textarea, input, parseStatus, parsed, summary, lists, rawIssues>>

NoValue == [t |-> "undefined", v |-> 0]

(***************************************************************************)
(* Bounds of the model.                                                    *)
(***************************************************************************)
\* rule entries (required + typed + domain) of a configuration drawn for it
MaxRules == 2
\* characters of a record key drawn for the naming check
MaxKeyLen == 4

(***************************************************************************)
(* Characters and the string literals of the source.                      *)
(***************************************************************************)
LowerCase ==
    {"a", "b", "c", "d", "e", "f", "g", "h", "i", "j", "k", "l", "m",
     "n", "o", "p", "q", "r", "s", "t", "u", "v", "w", "x", "y", "z"}

Digit == {"0", "1", "2", "3", "4", "5", "6", "7", "8", "9"}

\* what String.prototype.trim strips (the ones the model's texts hold)
WhiteSpace == {" ", "\t", "\n", "\r"}

s_event_name == <<"e", "v", "e", "n", "t", "_", "n", "a", "m", "e">>
s_user_id == <<"u", "s", "e", "r", "_", "i", "d">>
s_timestamp == <<"t", "i", "m", "e", "s", "t", "a", "m", "p">>
s_environment == <<"e", "n", "v", "i", "r", "o", "n", "m", "e", "n", "t">>
s_source == <<"s", "o", "u", "r", "c", "e">>
s_action_type == <<"a", "c", "t", "i", "o", "n", "_", "t", "y", "p", "e">>
s_eventName == <<"e", "v", "e", "n", "t", "N", "a", "m", "e">>
s_env == <<"e", "n", "v">>
s_user_login == <<"u", "s", "e", "r", ".", "l", "o", "g", "i", "n">>
s_123 == <<"1", "2", "3">>
s_slash_time == <<"2", "0", "2", "5", "/", "1", "1", "/", "2", "2", " ", "1", "5", ":", "0", "0">>
s_iso_time == <<"2", "0", "2", "5", "-", "1", "1", "-", "2", "2", "T", "1", "5", ":", "0", "0", ":", "0", "0", "Z">>
s_production == <<"p", "r", "o", "d", "u", "c", "t", "i", "o", "n">>
s_LOGIN_FAILED == <<"L", "O", "G", "I", "N", "-", "F", "A", "I", "L", "E", "D">>
s_prod == <<"p", "r", "o", "d">>
s_staging == <<"s", "t", "a", "g", "i", "n", "g">>
s_dev == <<"d", "e", "v">>
s_LOGIN == <<"L", "O", "G", "I", "N">>
s_LOGOUT == <<"L", "O", "G", "O", "U", "T">>
s_PURCHASE == <<"P", "U", "R", "C", "H", "A", "S", "E">>
s_VIEW == <<"V", "I", "E", "W">>
s_web == <<"w", "e", "b">>
s_login == <<"l", "o", "g", "i", "n">>
s_null == <<"n", "u", "l", "l">>
s_true == <<"t", "r", "u", "e">>
s_false == <<"f", "a", "l", "s", "e">>
s_object_Object == <<"[", "o", "b", "j", "e", "c", "t", " ", "O", "b", "j", "e", "c", "t", "]">>
s_function == <<"f", "u", "n", "c", "t", "i", "o", "n", " ">>
s_native_code == <<"(", ")", " ", "{", " ", "[", "n", "a", "t", "i", "v", "e", " ", "c", "o", "d", "e", "]", " ", "}">>
s_Object == <<"O", "b", "j", "e", "c", "t">>
s_constructor == <<"c", "o", "n", "s", "t", "r", "u", "c", "t", "o", "r">>
s_toString == <<"t", "o", "S", "t", "r", "i", "n", "g">>
s_valueOf == <<"v", "a", "l", "u", "e", "O", "f">>
s_hasOwnProperty == <<"h", "a", "s", "O", "w", "n", "P", "r", "o", "p", "e", "r", "t", "y">>

(***************************************************************************)
(* JavaScript values.                                                      *)
(***************************************************************************)
Str(s) == [t |-> "string", v |-> s]
Num(n) == [t |-> "number", v |-> n]
Bool(b) == [t |-> "boolean", v |-> b]
Null == [t |-> "null", v |-> 0]
Arr(items) == [t |-> "array", v |-> items]
Obj(entries) == [t |-> "object", v |-> entries]
\* a built-in function, such as the methods every object inherits, under the
\* name of the property that holds it
Fn(name) == [t |-> "function", v |-> name]

\* TypeOf with null given a tag of its own
TypeOfNullTag(value) ==
    CASE value.t = "array" -> "object"
      [] OTHER -> value.t

\* the typeof operator
TypeOf(value) ==
    CASE value.t = "null" -> "object"
      [] value.t = "array" -> "object"
      [] OTHER -> value.t

\* Array.isArray
IsArray(value) == value.t = "array"

\* Object.keys(obj): the own enumerable property names, in property order
Keys(obj) == [i \in 1..Len(obj.v) |-> obj.v[i].k]

HasOwn(obj, key) == \E i \in 1..Len(obj.v) : obj.v[i].k = key

\* the properties a plain object inherits from Object.prototype (all methods)
ObjectPrototypeKeys == {s_constructor, s_toString, s_valueOf, s_hasOwnProperty}

\* `key in obj`: an own property or one found on the prototype chain
In(key, obj) == HasOwn(obj, key) \/ key \in ObjectPrototypeKeys

\* obj[key]: the own property, else the inherited one, else undefined
Get(obj, key) ==
    IF HasOwn(obj, key)
    THEN obj.v[CHOOSE i \in 1..Len(obj.v) : obj.v[i].k = key].v
    ELSE IF key \in ObjectPrototypeKeys THEN Fn(key) ELSE NoValue

\* the decimal digits of a natural number
RECURSIVE DigitsOf(_)
DigitsOf(n) ==
    LET d == <<"0", "1", "2", "3", "4", "5", "6", "7", "8", "9">>[(n % 10) + 1]
    IN IF n < 10 THEN <<d>> ELSE DigitsOf(n \div 10) \o <<d>>

\* String(value), as a template literal's ${value} converts it
RECURSIVE ToStringJS(_)
ToStringJS(value) ==
    LET join[i \in 0..Len(value.v)] ==
            IF i = 0 THEN <<>>
            ELSE join[i - 1] \o (IF i > 1 THEN <<",">> ELSE <<>>)
                 \o (IF value.v[i].t \in {"null", "undefined"} THEN <<>>
                     ELSE ToStringJS(value.v[i]))
    IN CASE value.t = "string" -> value.v
         [] value.t = "number" -> DigitsOf(value.v)
         [] value.t = "boolean" -> IF value.v THEN s_true ELSE s_false
         [] value.t = "null" -> s_null
         [] value.t = "array" -> join[Len(value.v)]
         [] value.t = "object" -> s_object_Object
         [] OTHER -> s_function
                     \o (IF value.v = s_constructor THEN s_Object ELSE value.v)
                     \o s_native_code

\* allowed.join(", "): null and undefined elements give the empty string
Join(values) ==
    LET join[i \in 0..Len(values)] ==
            IF i = 0 THEN <<>>
            ELSE join[i - 1] \o (IF i > 1 THEN <<",", " ">> ELSE <<>>)
                 \o (IF values[i].t \in {"null", "undefined"} THEN <<>>
                     ELSE ToStringJS(values[i]))
    IN join[Len(values)]

\* String.prototype.trim
RECURSIVE TrimStart(_)
TrimStart(s) ==
    IF s # <<>> /\ Head(s) \in WhiteSpace THEN TrimStart(Tail(s)) ELSE s

RECURSIVE TrimEnd(_)
TrimEnd(s) ==
    IF s # <<>> /\ s[Len(s)] \in WhiteSpace
    THEN TrimEnd(SubSeq(s, 1, Len(s) - 1)) ELSE s

Trim(s) == TrimEnd(TrimStart(s))

\* SameValueZero, the comparison of Array.prototype.includes: no coercion, and
\* an object is equal only to itself (a decoded record's objects are fresh)
SameValueZero(a, b) ==
    a.t = b.t /\ a.t \notin {"object", "array"} /\ a.v = b.v

\* allowed.includes(value)
Includes(allowed, value) ==
    \E i \in 1..Len(allowed) : SameValueZero(allowed[i], value)


(***************************************************************************)
(* The two regular expressions.                                            *)
(***************************************************************************)
\* isSnakeCase with the underscore taken as one more letter: /^[a-z0-9_]+$/
isSnakeCaseLoose(key) ==
    /\ key # <<>>
    /\ \A i \in 1..Len(key) : key[i] \in LowerCase \cup Digit \cup {"_"}

\* /^[a-z0-9]+(_[a-z0-9]+)*$/.test(key), run as the automaton of the
\* expression: "start" and "sep" want a letter or digit, "run" is accepting
isSnakeCase(key) ==
    LET alnum(c) == c \in LowerCase \cup Digit
        step(q, c) ==
            CASE q = "start" /\ alnum(c) -> "run"
              [] q = "run" /\ alnum(c) -> "run"
              [] q = "run" /\ c = "_" -> "sep"
              [] q = "sep" /\ alnum(c) -> "run"
              [] OTHER -> "fail"
        at[i \in 0..Len(key)] ==
            IF i = 0 THEN "start" ELSE step(at[i - 1], key[i])
    IN at[Len(key)] = "run"

\* likelyIso with the year alone tested: /^\d{4}/
likelyIsoYearOnly(value) ==
    /\ Len(value) >= 4
    /\ \A i \in 1..4 : value[i] \in Digit

\* /^\d{4}-\d{2}-\d{2}T/.test(value): a prefix, anything may follow
likelyIso(value) ==
    LET pattern == <<"d", "d", "d", "d", "-", "d", "d", "-", "d", "d", "T">>
    IN /\ Len(value) >= Len(pattern)
       /\ \A i \in 1..Len(pattern) :
            IF pattern[i] = "d" THEN value[i] \in Digit
            ELSE value[i] = pattern[i]

(***************************************************************************)
(* validateEvent.  A message is its template and the values put in it.     *)
(***************************************************************************)
Issue(category, field, tpl, args, severity) ==
    [category |-> category, field |-> field,
     message |-> [tpl |-> tpl, args |-> args], severity |-> severity]

\* the callback of config.requiredFields.forEach
RequiredRule(eventObj, field) ==
    IF ~In(field, eventObj)
    THEN <<Issue("required", field, "Missing required field \"$1\".",
                 <<field>>, "error")>>
    ELSE IF \/ Get(eventObj, field).t = "null"
            \/ Get(eventObj, field) = Str(<<>>)
            \/ (TypeOf(Get(eventObj, field)) = "string"
                /\ Trim(Get(eventObj, field).v) = <<>>)
    THEN <<Issue("required", field,
                 "Required field \"$1\" is present but empty.",
                 <<field>>, "warning")>>
    ELSE <<>>

\* TypeRule with the format check made only for a field declared a string
TypeRuleDeclaredString(eventObj, field, expected) ==
    IF ~In(field, eventObj) THEN <<>>
    ELSE
      LET value == Get(eventObj, field)
          actual == IF IsArray(value) THEN "array" ELSE TypeOf(value)
          mismatch ==
              IF expected # actual
              THEN <<Issue("type", field,
                           "Type mismatch for \"$1\": expected $2, got $3.",
                           <<field, expected, actual>>, "error")>>
              ELSE <<>>
          format ==
              IF field = s_timestamp /\ expected = "string"
                 /\ TypeOf(value) = "string" /\ ~likelyIso(value.v)
              THEN <<Issue("type", field,
                           "Timestamp \"$1\" does not look like an ISO-8601 value.",
                           <<value.v>>, "warning")>>
              ELSE <<>>
      IN mismatch \o format

\* the callback of Object.entries(config.fieldTypes).forEach
TypeRule(eventObj, field, expected) ==
    IF ~In(field, eventObj) THEN <<>>
    ELSE
      LET value == Get(eventObj, field)
          actual == IF IsArray(value) THEN "array" ELSE TypeOf(value)
          mismatch ==
              IF expected # actual
              THEN <<Issue("type", field,
                           "Type mismatch for \"$1\": expected $2, got $3.",
                           <<field, expected, actual>>, "error")>>
              ELSE <<>>
          format ==
              IF field = s_timestamp /\ TypeOf(value) = "string"
                 /\ ~likelyIso(value.v)
              THEN <<Issue("type", field,
                           "Timestamp \"$1\" does not look like an ISO-8601 value.",
                           <<value.v>>, "warning")>>
              ELSE <<>>
      IN mismatch \o format

\* the callback of Object.keys(eventObj).forEach
NamingRule(config, key) ==
    IF config.namingConvention = "snake_case" /\ ~isSnakeCase(key)
    THEN <<Issue("naming", key,
                 "Field \"$1\" does not follow snake_case naming.",
                 <<key>>, "warning")>>
    ELSE <<>>

\* the callback of Object.entries(config.domainRules).forEach
DomainRule(eventObj, field, allowed) ==
    IF ~In(field, eventObj) THEN <<>>
    ELSE
      LET value == Get(eventObj, field)
      IN IF ~Includes(allowed, value)
         THEN <<Issue("domain", field,
                      "Value \"$1\" for \"$2\" is not in allowed set: [$3].",
                      <<ToStringJS(value), field, Join(allowed)>>, "warning")>>
         ELSE <<>>

\* Passed with a warning failing the record too
PassedNoIssue(issues) == Len(issues) = 0

\* issues.filter((i) => i.severity === "error").length === 0
Passed(issues) ==
    Len(SelectSeq(issues, LAMBDA i : i.severity = "error")) = 0

\* config.requiredFields.forEach(...): what it pushes, in order
RequiredIssues(eventObj, config) ==
    LET pushed[n \in 0..Len(config.requiredFields)] ==
            IF n = 0 THEN <<>>
            ELSE pushed[n - 1]
                 \o RequiredRule(eventObj, config.requiredFields[n])
    IN pushed[Len(config.requiredFields)]

\* Object.entries(config.fieldTypes).forEach(...)
TypeIssues(eventObj, config) ==
    LET pushed[n \in 0..Len(config.fieldTypes)] ==
            IF n = 0 THEN <<>>
            ELSE pushed[n - 1]
                 \o TypeRule(eventObj, config.fieldTypes[n].k,
                             config.fieldTypes[n].v)
    IN pushed[Len(config.fieldTypes)]

\* Object.keys(eventObj).forEach(...)
NamingIssues(eventObj, config) ==
    LET pushed[n \in 0..Len(Keys(eventObj))] ==
            IF n = 0 THEN <<>>
            ELSE pushed[n - 1] \o NamingRule(config, Keys(eventObj)[n])
    IN pushed[Len(Keys(eventObj))]

\* Object.entries(config.domainRules).forEach(...)
DomainIssues(eventObj, config) ==
    LET pushed[n \in 0..Len(config.domainRules)] ==
            IF n = 0 THEN <<>>
            ELSE pushed[n - 1]
                 \o DomainRule(eventObj, config.domainRules[n].k,
                               config.domainRules[n].v)
    IN pushed[Len(config.domainRules)]

\* validateEvent with the domain rules run before the naming check
validateEventDomainFirst(eventObj, config) ==
    LET issues == RequiredIssues(eventObj, config) \o TypeIssues(eventObj, config)
                  \o DomainIssues(eventObj, config)
                  \o NamingIssues(eventObj, config)
    IN [passed |-> Passed(issues), issues |-> issues]

validateEvent(eventObj, config) ==
    LET issues == RequiredIssues(eventObj, config) \o TypeIssues(eventObj, config)
                  \o NamingIssues(eventObj, config)
                  \o DomainIssues(eventObj, config)
    IN [passed |-> Passed(issues), issues |-> issues]

(***************************************************************************)
(* The configuration and the example events of the source.                 *)
(***************************************************************************)
KV(k, v) == [k |-> k, v |-> v]

CONFIG ==
    [requiredFields |-> <<s_event_name, s_user_id, s_timestamp, s_environment>>,
     fieldTypes |-> <<KV(s_event_name, "string"), KV(s_user_id, "number"),
                      KV(s_timestamp, "string"), KV(s_environment, "string"),
                      KV(s_source, "string"), KV(s_action_type, "string")>>,
     namingConvention |-> "snake_case",
     domainRules |->
        <<KV(s_environment, <<Str(s_prod), Str(s_staging), Str(s_dev)>>),
          KV(s_action_type, <<Str(s_LOGIN), Str(s_LOGOUT), Str(s_PURCHASE),
                              Str(s_VIEW)>>)>>]

VALID_EVENT ==
    Obj(<<KV(s_event_name, Str(s_user_login)), KV(s_user_id, Num(123)),
          KV(s_timestamp, Str(s_iso_time)), KV(s_environment, Str(s_prod)),
          KV(s_source, Str(s_web)), KV(s_action_type, Str(s_LOGIN))>>)

BROKEN_EVENT ==
    Obj(<<KV(s_eventName, Str(s_user_login)), KV(s_user_id, Str(s_123)),
          KV(s_timestamp, Str(s_slash_time)), KV(s_env, Str(s_production)),
          KV(s_action_type, Str(s_LOGIN_FAILED))>>)

(***************************************************************************)
(* The inputs drawn for validateEvent: every record over RecordKeys and    *)
(* every configuration of at most MaxRules rule entries over the fields,   *)
(* values, type tags and allowed lists below.                              *)
(***************************************************************************)
RecordKeys == {s_timestamp, s_eventName}

\* s_constructor names no key of a record: every object inherits it
ConfigFields == RecordKeys \cup {s_constructor}

Values ==
    {Null, Str(<<>>), Str(<<" ">>), Str(s_iso_time), Str(s_LOGIN),
     Num(0), Bool(FALSE), Arr(<<>>), Obj(<<>>)}

TypeTags == {"string", "number", "boolean", "object", "array"}

AllowedLists == {<<Str(s_LOGIN)>>, <<Str(<<"0">>), Str(s_login)>>}

Conventions == {"snake_case", "camelCase"}

\* the sequences of n elements of S, no two of them equal
DistinctSeqs(S, n) ==
    {q \in [1..n -> S] : \A i, j \in 1..n : i # j => q[i] # q[j]}

\* the sequences of n entries of S, no two of them of the same key
DistinctEntries(S, n) ==
    {q \in [1..n -> S] : \A i, j \in 1..n : i # j => q[i].k # q[j].k}

Records ==
    UNION {{Obj(q) : q \in DistinctEntries({KV(k, v) : k \in RecordKeys,
                                                        v \in Values}, n)}
           : n \in 0..Cardinality(RecordKeys)}

Configs ==
    UNION {[requiredFields : DistinctSeqs(ConfigFields, n[1]),
            fieldTypes :
                DistinctEntries({KV(k, v) : k \in ConfigFields, v \in TypeTags},
                                n[2]),
            namingConvention : Conventions,
            domainRules :
                DistinctEntries({KV(k, v) : k \in ConfigFields,
                                            v \in AllowedLists}, n[3])]
           : n \in {m \in (0..MaxRules) \X (0..MaxRules) \X (0..MaxRules) :
                        m[1] + m[2] + m[3] <= MaxRules}}

\* the characters of the keys drawn for the naming check: a letter, a digit,
\* the underscore, a capital and a sign
KeyChars == {"a", "1", "_", "A", "-"}

\* every key of at most MaxKeyLen of them, the empty key included
DrawnKeys == UNION {[1..n -> KeyChars] : n \in 0..MaxKeyLen}

\* a drawn key alone, or before or after a second key; configurations that
\* name no field, or the second key alone: no rule names the drawn key
NamingInputs ==
    {<<Obj(q), c>> :
        q \in UNION {{<<KV(k, Num(0))>>,
                      <<KV(k, Num(0)), KV(s_eventName, Num(0))>>,
                      <<KV(s_eventName, Num(0)), KV(k, Num(0))>>}
                     : k \in DrawnKeys},
        c \in [requiredFields : {<<>>},
               fieldTypes : {<<>>, <<KV(s_eventName, "number")>>},
               namingConvention : Conventions \cup {"mixed"},
               domainRules : {<<>>}]}

Inputs == (Records \X Configs) \cup NamingInputs

\* the page's elements before anything is loaded into them
NoPage ==
    /\ textarea = NoValue
    /\ input = NoValue
    /\ parseStatus = NoValue
    /\ parsed = NoValue
    /\ summary = NoValue
    /\ lists = NoValue
    /\ rawIssues = NoValue

Init ==
    /\ \E drawn \in Inputs : event = drawn[1] /\ cfg = drawn[2]
    /\ result = NoValue
    /\ NoPage

\* one call validateEvent(event, cfg)
Validate ==
    /\ result = NoValue
    /\ result' = validateEvent(event, cfg)
    /\ UNCHANGED <<event, cfg, pageVars>>

Next == Validate

Spec == Init /\ [][Next]_vars

(***************************************************************************)
(* The page.  A text is what JSON.parse makes of it: blank (nothing but    *)
(* white space), malformed (JSON.parse throws a SyntaxError with the       *)
(* diagnostic doc) or the JSON text of the value doc.                      *)
(***************************************************************************)
BlankText == [kind |-> "blank", doc |-> NoValue]
MalformedText(diagnostic) == [kind |-> "malformed", doc |-> diagnostic]
JSONText(value) == [kind |-> "json", doc |-> value]

\* JSON.stringify(eventObj, null, 2)
Stringify(eventObj) == JSONText(eventObj)

InvalidShapeMessage ==
    "Please provide a single JSON object, not an array or primitive."

\* a message: a string of the page, kept whole
Msg(text) == [t |-> "string", v |-> text]

\* a value in a condition: undefined and the empty string are falsy
Truthy(value) ==
    value.t # "undefined" /\ ~(value.t = "string" /\ value.v = "")

\* JSON.parse(text) throws: the SyntaxError's message
SyntaxMessage(text) ==
    IF text.kind = "blank" THEN "Unexpected end of JSON input" ELSE text.doc

\* safeParseJSON with a syntax error swallowed: the catch returns an empty object
safeParseJSONSwallow(text) ==
    IF text.kind = "json"
    THEN IF text.doc.t = "null" \/ IsArray(text.doc) \/ TypeOf(text.doc) # "object"
         THEN [value |-> NoValue, error |-> Msg(InvalidShapeMessage)]
         ELSE [value |-> text.doc, error |-> NoValue]
    ELSE [value |-> Obj(<<>>), error |-> NoValue]

\* safeParseJSON(text): { value } or { error }; the other property is undefined
safeParseJSON(text) ==
    IF text.kind = "json"
    THEN IF text.doc.t = "null" \/ IsArray(text.doc) \/ TypeOf(text.doc) # "object"
         THEN [value |-> NoValue, error |-> Msg(InvalidShapeMessage)]
         ELSE [value |-> text.doc, error |-> NoValue]
    ELSE [value |-> NoValue,
          error |-> IF Truthy(Msg(SyntaxMessage(text)))
                    THEN Msg(SyntaxMessage(text))
                    ELSE Msg("Invalid JSON.")]

ListIds == {"required-issues", "type-issues", "naming-issues", "domain-issues"}

\* what clearIssuesLists leaves in the four lists
ClearedLists == [id \in ListIds |-> [items |-> <<>>, empty |-> TRUE]]

ClearedRaw == "No issues - event meets all configured rules."

Badge(className, text, total, errors) ==
    [className |-> className, text |-> text, total |-> total, errors |-> errors]

\* renderSummary(result): the badge put in #summary
renderSummary(res) ==
    LET total == Len(res.issues)
        errors == Len(SelectSeq(res.issues, LAMBDA i : i.severity = "error"))
    IN IF total = 0
       THEN Badge("summary-badge summary-badge-ok",
                  "All checks passed. No issues detected.", 0, 0)
       ELSE IF errors = 0
       THEN Badge("summary-badge summary-badge-fail",
                  "$total issue(s) detected (warnings only).", total, 0)
       ELSE Badge("summary-badge summary-badge-fail",
                  "$total issue(s) detected - $errors error(s).", total, errors)

\* addIssueToList for every issue of one category, in the result's order
ListOf(res, category) ==
    LET mine == SelectSeq(res.issues, LAMBDA i : i.category = category)
    IN [items |-> [n \in 1..Len(mine) |->
                     [pill |-> IF mine[n].field = <<>>
                               THEN <<"e", "v", "e", "n", "t">>
                               ELSE mine[n].field,
                      message |-> mine[n].message]],
        empty |-> mine = <<>>]

\* renderIssues(result): the lists and #raw-issues
renderedLists(res) ==
    [id \in ListIds |->
        CASE id = "required-issues" -> ListOf(res, "required")
          [] id = "type-issues" -> ListOf(res, "type")
          [] id = "naming-issues" -> ListOf(res, "naming")
          [] OTHER -> ListOf(res, "domain")]

renderedRaw(res) ==
    IF Len(res.issues) = 0 THEN [text |-> ClearedRaw, lines |-> <<>>]
    ELSE [text |-> "",
          lines |-> [n \in 1..Len(res.issues) |->
                        <<res.issues[n].category, res.issues[n].message>>]]

RawText(text) == [text |-> text, lines |-> <<>>]

\* loadExample(eventObj, label): what it leaves in the page
loadExample(eventObj, label) ==
    [textarea |-> Stringify(eventObj),
     parseStatus |-> <<"Loaded $label example.", label>>,
     lists |-> ClearedLists,
     summary |-> Badge("summary-badge summary-badge-idle",
                       "Ready to scan the loaded event.", 0, 0),
     rawIssues |-> RawText("No scan yet.")]

onLoadValid ==
    /\ textarea' = loadExample(VALID_EVENT, "valid").textarea
    /\ parseStatus' = loadExample(VALID_EVENT, "valid").parseStatus
    /\ lists' = loadExample(VALID_EVENT, "valid").lists
    /\ summary' = loadExample(VALID_EVENT, "valid").summary
    /\ rawIssues' = loadExample(VALID_EVENT, "valid").rawIssues
    /\ input' = NoValue
    /\ parsed' = NoValue
    /\ event' = NoValue
    /\ result' = NoValue
    /\ UNCHANGED cfg

onLoadBroken ==
    /\ textarea' = loadExample(BROKEN_EVENT, "broken").textarea
    /\ parseStatus' = loadExample(BROKEN_EVENT, "broken").parseStatus
    /\ lists' = loadExample(BROKEN_EVENT, "broken").lists
    /\ summary' = loadExample(BROKEN_EVENT, "broken").summary
    /\ rawIssues' = loadExample(BROKEN_EVENT, "broken").rawIssues
    /\ input' = NoValue
    /\ parsed' = NoValue
    /\ event' = NoValue
    /\ result' = NoValue
    /\ UNCHANGED cfg

\* onScan: the click on #scan-button
onScan ==
    IF textarea.kind = "blank"
    THEN /\ parseStatus' = <<"Please paste a JSON event first.">>
         /\ lists' = ClearedLists
         /\ summary' = Badge("summary-badge summary-badge-idle",
                             "No event scanned yet.", 0, 0)
         /\ rawIssues' = RawText(ClearedRaw)
         /\ input' = textarea
         /\ parsed' = NoValue
         /\ event' = NoValue
         /\ result' = NoValue
         /\ UNCHANGED <<textarea, cfg>>
    ELSE
      LET p == safeParseJSON(textarea)
      IN IF Truthy(p.error)
         THEN /\ parseStatus' = <<"JSON error: ", p.error.v>>
              /\ lists' = ClearedLists
              /\ summary' = Badge("summary-badge summary-badge-fail",
                                  "Cannot scan: invalid JSON.", 0, 0)
              /\ rawIssues' = RawText("No results due to invalid JSON.")
              /\ input' = textarea
              /\ parsed' = p
              /\ event' = NoValue
              /\ result' = NoValue
              /\ UNCHANGED <<textarea, cfg>>
         ELSE /\ parseStatus' = <<"JSON parsed successfully.">>
              /\ input' = textarea
              /\ parsed' = p
              /\ event' = p.value
              /\ result' = validateEvent(p.value, CONFIG)
              /\ lists' = renderedLists(validateEvent(p.value, CONFIG))
              /\ summary' = renderSummary(validateEvent(p.value, CONFIG))
              /\ rawIssues' = renderedRaw(validateEvent(p.value, CONFIG))
              /\ UNCHANGED <<textarea, cfg>>

\* the texts a user types into #event-input
Diagnostics == {"Unexpected token } in JSON at position 1", ""}

\* the examples, and VALID_EVENT with one field dropped or given another value
Variants ==
    {Obj(<<>>), VALID_EVENT, BROKEN_EVENT}
    \cup {Obj(SelectSeq(VALID_EVENT.v, LAMBDA e : e.k # k))
          : k \in {s_user_id, s_timestamp, s_environment, s_source}}
    \cup {Obj([i \in 1..Len(VALID_EVENT.v) |->
                 IF VALID_EVENT.v[i].k = k THEN KV(k, v) ELSE VALID_EVENT.v[i]])
          : k \in {s_user_id, s_timestamp, s_environment},
            v \in {Null, Str(<<" ">>), Str(s_123), Arr(<<>>)}}

UserTexts ==
    {BlankText} \cup {MalformedText(d) : d \in Diagnostics}
    \cup {JSONText(v) : v \in {Null, Num(0), Str(s_prod), Bool(TRUE), Arr(<<>>),
                               Arr(<<VALID_EVENT>>)} \cup Variants}

\* the user edits #event-input
TypeInput ==
    /\ textarea' \in UserTexts
    /\ UNCHANGED <<engineVars, input, parseStatus, parsed, summary, lists,
                   rawIssues>>

\* the DOMContentLoaded listener: the handlers are wired and the broken
\* example is loaded
InitPage ==
    /\ cfg = CONFIG
    /\ textarea = loadExample(BROKEN_EVENT, "broken").textarea
    /\ parseStatus = loadExample(BROKEN_EVENT, "broken").parseStatus
    /\ lists = loadExample(BROKEN_EVENT, "broken").lists
    /\ summary = loadExample(BROKEN_EVENT, "broken").summary
    /\ rawIssues = loadExample(BROKEN_EVENT, "broken").rawIssues
    /\ input = NoValue
    /\ parsed = NoValue
    /\ event = NoValue
    /\ result = NoValue

NextPage == onScan \/ onLoadValid \/ onLoadBroken \/ TypeInput

SpecScan == InitPage /\ [][NextPage]_vars

(***************************************************************************)
(* What the claims speak of, stated on the call's arguments and result     *)
(* and not through the operators of validateEvent.                         *)
(***************************************************************************)
Called == result # NoValue

\* the positions of the issues of a category, a field and a severity
IssuesAt(category, field, severity) ==
    {i \in 1..Len(result.issues) :
        /\ result.issues[i].category = category
        /\ result.issues[i].field = field
        /\ result.issues[i].severity = severity}

Count(category, field, severity) ==
    Cardinality(IssuesAt(category, field, severity))

\* the record holds the field: one of its own keys
Present(field) == \E i \in 1..Len(event.v) : event.v[i].k = field

\* the record's value of a field it holds
ValueOf(field) ==
    event.v[CHOOSE i \in 1..Len(event.v) : event.v[i].k = field].v

\* null, the empty string, or a string of white space only
EmptyLike(value) ==
    \/ value.t = "null"
    \/ value.t = "string" /\ \A i \in 1..Len(value.v) : value.v[i] \in WhiteSpace

\* the type tag: "array" for a list, else the primitive kind (null's is object)
TagOf(value) ==
    CASE value.t = "array" -> "array"
      [] value.t = "null" -> "object"
      [] OTHER -> value.t

\* four digits, '-', two digits, '-', two digits, 'T', then anything
IsoPrefix(chars) ==
    /\ Len(chars) >= 11
    /\ \A i \in {1, 2, 3, 4, 6, 7, 9, 10} : chars[i] \in Digit
    /\ chars[5] = "-" /\ chars[8] = "-" /\ chars[11] = "T"

\* runs of lowercase letters and digits separated by single underscores
SnakeWords(key) ==
    /\ key # <<>>
    /\ \A i \in 1..Len(key) : key[i] \in LowerCase \cup Digit \cup {"_"}
    /\ key[1] # "_" /\ key[Len(key)] # "_"
    /\ \A i \in 1..(Len(key) - 1) : ~(key[i] = "_" /\ key[i + 1] = "_")

\* the position of an element in a sequence that holds it once
IndexOf(seq, x) == CHOOSE n \in 1..Len(seq) : seq[n] = x

KeysOf(entries) == [n \in 1..Len(entries) |-> entries[n].k]

\* C1: passed is true if and only if no issue has severity "error"
C1_PassedIffNoError ==
    Called =>
        (result.passed <=>
            \A i \in 1..Len(result.issues) : result.issues[i].severity # "error")

\* C1's case: issues were found, all of them warnings, and the record passed
C1_Witness ==
    /\ Called
    /\ Len(result.issues) >= 2
    /\ result.passed

\* C2: a required field gets exactly one required/error when the record
\* lacks it, exactly one required/warning when it holds null, "" or a blank
\* string, and no required issue for any other value
C2_RequiredPerField ==
    Called =>
        \A n \in 1..Len(cfg.requiredFields) :
            LET f == cfg.requiredFields[n]
                errors == Count("required", f, "error")
                warnings == Count("required", f, "warning")
            IN IF ~Present(f) THEN errors = 1 /\ warnings = 0
               ELSE IF EmptyLike(ValueOf(f)) THEN errors = 0 /\ warnings = 1
               ELSE errors = 0 /\ warnings = 0

\* C2 on the fields no object inherits from Object.prototype
C2_RequiredPerOwnField ==
    Called =>
        \A n \in 1..Len(cfg.requiredFields) :
            LET f == cfg.requiredFields[n]
                errors == Count("required", f, "error")
                warnings == Count("required", f, "warning")
            IN f \notin ObjectPrototypeKeys =>
                 IF ~Present(f) THEN errors = 1 /\ warnings = 0
                 ELSE IF EmptyLike(ValueOf(f)) THEN errors = 0 /\ warnings = 1
                 ELSE errors = 0 /\ warnings = 0

\* C3: a typed field the record lacks gets no type issue; one it holds gets
\* exactly one type/error, naming field, expected and actual tag, when the
\* tags differ, and no type/error when they are equal
C3_TypePerField ==
    Called =>
        \A n \in 1..Len(cfg.fieldTypes) :
            LET f == cfg.fieldTypes[n].k
                expected == cfg.fieldTypes[n].v
            IN IF ~Present(f)
               THEN Count("type", f, "error") = 0 /\ Count("type", f, "warning") = 0
               ELSE IF TagOf(ValueOf(f)) # expected
               THEN /\ Count("type", f, "error") = 1
                    /\ \A i \in IssuesAt("type", f, "error") :
                          result.issues[i].message.args
                              = <<f, expected, TagOf(ValueOf(f))>>
               ELSE Count("type", f, "error") = 0

\* C3 on the fields no object inherits from Object.prototype
C3_TypePerOwnField ==
    Called =>
        \A n \in 1..Len(cfg.fieldTypes) :
            LET f == cfg.fieldTypes[n].k
                expected == cfg.fieldTypes[n].v
            IN f \notin ObjectPrototypeKeys =>
                 IF ~Present(f)
                 THEN Count("type", f, "error") = 0
                      /\ Count("type", f, "warning") = 0
                 ELSE IF TagOf(ValueOf(f)) # expected
                 THEN /\ Count("type", f, "error") = 1
                      /\ \A i \in IssuesAt("type", f, "error") :
                            result.issues[i].message.args
                                = <<f, expected, TagOf(ValueOf(f))>>
                 ELSE Count("type", f, "error") = 0

\* the expected types fieldTypes declares for a field
Declared(field) ==
    {cfg.fieldTypes[n].v : n \in {m \in 1..Len(cfg.fieldTypes) :
                                    cfg.fieldTypes[m].k = field}}

\* C4 as claimed: one type/warning for timestamp exactly when the record
\* holds it, fieldTypes declares it a string, its value is a string and the
\* value lacks the ISO prefix; none otherwise
C4_TimestampWarningDeclaredString ==
    Called =>
        Count("type", s_timestamp, "warning") =
            IF /\ Present(s_timestamp)
               /\ Declared(s_timestamp) = {"string"}
               /\ ValueOf(s_timestamp).t = "string"
               /\ ~IsoPrefix(ValueOf(s_timestamp).v)
            THEN 1 ELSE 0

\* C4 as amended: one type/warning for timestamp exactly when the record
\* holds it, fieldTypes has an entry for it (of whatever expected type), its
\* value is a string and the value lacks the ISO prefix; none otherwise
C4_TimestampWarningAnyDeclared ==
    Called =>
        Count("type", s_timestamp, "warning") =
            IF /\ Present(s_timestamp)
               /\ Declared(s_timestamp) # {}
               /\ ValueOf(s_timestamp).t = "string"
               /\ ~IsoPrefix(ValueOf(s_timestamp).v)
            THEN 1 ELSE 0

\* C4's case: the warning beside a type-mismatch error for the same field
C4_Witness ==
    /\ Called
    /\ Count("type", s_timestamp, "error") = 1
    /\ Count("type", s_timestamp, "warning") = 1

\* the place of a category in the order of the rule families
Rank(category) ==
    CASE category = "required" -> 1
      [] category = "type" -> 2
      [] category = "naming" -> 3
      [] OTHER -> 4

\* where the configuration entry, or the record key, of an issue stands
Place(issue) ==
    CASE issue.category = "required" -> IndexOf(cfg.requiredFields, issue.field)
      [] issue.category = "type" -> IndexOf(KeysOf(cfg.fieldTypes), issue.field)
      [] issue.category = "naming" -> IndexOf(KeysOf(event.v), issue.field)
      [] OTHER -> IndexOf(KeysOf(cfg.domainRules), issue.field)

\* C5: the issues are ordered by rule family (required, type, naming,
\* domain) and, within a family, by the order of the configuration entries
\* or, for naming, of the record's keys
C5_IssueOrder ==
    Called =>
        \A i, j \in 1..Len(result.issues) :
            i < j =>
                /\ Rank(result.issues[i].category) <= Rank(result.issues[j].category)
                /\ result.issues[i].category = result.issues[j].category
                     => Place(result.issues[i]) <= Place(result.issues[j])

\* C5's case: two issues of one family from two entries, then a later family
C5_Witness ==
    /\ Called
    /\ \E i, j, k \in 1..Len(result.issues) :
          /\ i < j /\ j < k
          /\ result.issues[i].category = "required"
          /\ result.issues[j].category = "required"
          /\ result.issues[i].field # result.issues[j].field
          /\ result.issues[k].category \in {"naming", "domain"}

\* C6: under snake_case every key of the record that is not made of runs of
\* lowercase letters and digits separated by single underscores gets exactly
\* one naming/warning, and a key that is gets none; under any other
\* convention the call returns and no key gets a naming issue
C6_NamingPerKey ==
    Called =>
        \A n \in 1..Len(event.v) :
            LET key == event.v[n].k
            IN IF cfg.namingConvention = "snake_case"
               THEN /\ Count("naming", key, "error") = 0
                    /\ Count("naming", key, "warning")
                          = IF SnakeWords(key) THEN 0 ELSE 1
               ELSE \A i \in 1..Len(result.issues) :
                        result.issues[i].category # "naming"

\* C6's case: a key with a doubled underscore inside, which no rule names
C6_Witness ==
    /\ Called
    /\ cfg.namingConvention = "snake_case"
    /\ Present(<<"a", "_", "_", "a">>)
    /\ Count("naming", <<"a", "_", "_", "a">>, "warning") = 1
    /\ cfg.requiredFields = <<>> /\ cfg.domainRules = <<>>

\* the text of a value in a message
TextOf(value) ==
    CASE value.t = "string" -> value.v
      [] value = Null -> s_null
      [] value = Num(0) -> <<"0">>
      [] value = Bool(FALSE) -> s_false
      [] value = Arr(<<>>) -> <<>>
      [] OTHER -> s_object_Object

\* the texts of the allowed values, in their order, ", " between them
RECURSIVE Listed(_)
Listed(allowed) ==
    IF allowed = <<>> THEN <<>>
    ELSE IF Len(allowed) = 1 THEN TextOf(allowed[1])
    ELSE TextOf(allowed[1]) \o <<",", " ">> \o Listed(Tail(allowed))

\* C7: a field with a domain rule gets no domain issue when the record
\* lacks it; when the record holds it, exactly one domain/warning if its
\* value is no member of the allowed values (exact match), listing the value
\* and the allowed values in order, and none if it is a member; domain
\* issues alone never fail the record
C7_DomainPerField ==
    Called =>
        /\ \A n \in 1..Len(cfg.domainRules) :
              LET f == cfg.domainRules[n].k
                  allowed == cfg.domainRules[n].v
              IN /\ Count("domain", f, "error") = 0
                 /\ IF ~Present(f) THEN Count("domain", f, "warning") = 0
                    ELSE IF \E m \in 1..Len(allowed) : allowed[m] = ValueOf(f)
                    THEN Count("domain", f, "warning") = 0
                    ELSE /\ Count("domain", f, "warning") = 1
                         /\ \A i \in IssuesAt("domain", f, "warning") :
                               result.issues[i].message.args
                                   = <<TextOf(ValueOf(f)), f, Listed(allowed)>>
        /\ (\A i \in 1..Len(result.issues) : result.issues[i].category = "domain")
              => result.passed

\* C7 on the fields no object inherits from Object.prototype
C7_DomainPerOwnField ==
    Called =>
        /\ \A n \in 1..Len(cfg.domainRules) :
              LET f == cfg.domainRules[n].k
                  allowed == cfg.domainRules[n].v
              IN f \notin ObjectPrototypeKeys =>
                 /\ Count("domain", f, "error") = 0
                 /\ IF ~Present(f) THEN Count("domain", f, "warning") = 0
                    ELSE IF \E m \in 1..Len(allowed) : allowed[m] = ValueOf(f)
                    THEN Count("domain", f, "warning") = 0
                    ELSE /\ Count("domain", f, "warning") = 1
                         /\ \A i \in IssuesAt("domain", f, "warning") :
                               result.issues[i].message.args
                                   = <<TextOf(ValueOf(f)), f, Listed(allowed)>>
        /\ (\A i \in 1..Len(result.issues) : result.issues[i].category = "domain")
              => result.passed

\* C10: a field that is required and typed and holds null gets a
\* required/warning and, unless its expected type is object, a type/error
\* whose actual tag is "object", so the record fails; a null for a field
\* typed object gets no type issue
C10_NullValue ==
    Called =>
        \A n \in 1..Len(cfg.fieldTypes) :
            LET f == cfg.fieldTypes[n].k
                expected == cfg.fieldTypes[n].v
                required == \E m \in 1..Len(cfg.requiredFields) :
                                cfg.requiredFields[m] = f
            IN (Present(f) /\ ValueOf(f) = Null) =>
                 /\ required => Count("required", f, "warning") = 1
                 /\ IF expected # "object"
                    THEN /\ Count("type", f, "error") = 1
                         /\ \A i \in IssuesAt("type", f, "error") :
                               result.issues[i].message.args[3] = "object"
                         /\ ~result.passed
                    ELSE Count("type", f, "error") = 0
                         /\ Count("type", f, "warning") = 0

\* C10's case: the required family only warned, and the record failed on
\* the type error of the null
C10_Witness ==
    /\ Called
    /\ ~result.passed
    /\ \E n \in 1..Len(cfg.requiredFields) :
          /\ Present(cfg.requiredFields[n])
          /\ ValueOf(cfg.requiredFields[n]) = Null
          /\ Count("required", cfg.requiredFields[n], "warning") = 1
          /\ Count("type", cfg.requiredFields[n], "error") = 1
    /\ Cardinality({i \in 1..Len(result.issues) :
                       result.issues[i].severity = "error"}) = 1

\* what a scan that could not parse leaves in the page
NothingScanned ==
    /\ event = NoValue
    /\ result = NoValue
    /\ lists = ClearedLists
    /\ rawIssues.lines = <<>>

\* C8: in a scan validateEvent runs only after safeParseJSON succeeded, on
\* the decoded object as it is; malformed text fails with the syntax
\* failure, and well-formed text that is a list, a scalar or null fails with
\* the fixed InvalidShape message, and both end the scan with no engine call
\* and no issue list (a blank text ends it before the parser is called)
C8_ParseBeforeEngine ==
    /\ result # NoValue =>
          /\ input # NoValue /\ input.kind = "json"
          /\ input.doc.t = "object"
          /\ parsed # NoValue /\ parsed.error = NoValue
          /\ parsed.value = input.doc
          /\ event = input.doc
          /\ cfg = CONFIG
    /\ (input # NoValue /\ input.kind = "malformed") =>
          /\ parsed # NoValue /\ parsed.value = NoValue
          /\ parsed.error.t = "string"
          /\ parsed.error # Msg(InvalidShapeMessage)
          /\ NothingScanned
    /\ (input # NoValue /\ input.kind = "json" /\ input.doc.t # "object") =>
          /\ parsed # NoValue /\ parsed.value = NoValue
          /\ parsed.error = Msg(InvalidShapeMessage)
          /\ NothingScanned
    /\ (input # NoValue /\ input.kind = "json" /\ input.doc.t = "object") =>
          result # NoValue
    /\ (input # NoValue /\ input.kind = "blank") =>
          parsed = NoValue /\ NothingScanned

\* C8's case: a scan of a well-formed list ended at the parser
C8_Witness ==
    /\ input # NoValue
    /\ input.kind = "json"
    /\ input.doc.t = "array"
    /\ parsed # NoValue
    /\ parsed.error = Msg(InvalidShapeMessage)
    /\ result = NoValue

\* the result holds an issue of a category, a field and a severity
Has(category, field, severity) == Count(category, field, severity) >= 1

\* C9: the broken example against CONFIG fails, with a required/error for
\* environment, a type/error for user_id, a type/warning for timestamp, a
\* naming/warning for eventName and a domain/warning for action_type
C9_BrokenExample ==
    (result # NoValue /\ event = BROKEN_EVENT /\ cfg = CONFIG) =>
        /\ ~result.passed
        /\ Has("required", s_environment, "error")
        /\ Has("type", s_user_id, "error")
        /\ Has("type", s_timestamp, "warning")
        /\ Has("naming", s_eventName, "warning")
        /\ Has("domain", s_action_type, "warning")

\* C9's case: the broken example was scanned
C9_Witness ==
    /\ result # NoValue
    /\ event = BROKEN_EVENT
    /\ cfg = CONFIG
    /\ input = Stringify(BROKEN_EVENT)

=============================================================================
